---- MODULE Spec2Model ----
(***************************************************************************)
(* The in-memory name index of the repository (src/storage/index.cpp):     *)
(* Index::insert, erase, find, getStatus, hasData, removeDeletedEntry and  *)
(* the selector resolution of Index::selectChild, over the name-ordered    *)
(* container m_skipList.                                                   *)
(*                                                                         *)
(* A Name is a sequence of components; a component is a natural number     *)
(* (one byte below 255, so that the successor of a component is +1).       *)
(* m_skipList is the sequence of its entries in ascending canonical name   *)
(* order; an iterator is a position 1..Len, end() is Len+1 and position 0  *)
(* is what decrementing begin() yields.                                    *)
(*                                                                         *)
(* m_size is a size_t.  The model keeps the representative of its value    *)
(* modulo 2^64 that lies nearest to zero: a negative v stands for the      *)
(* unsigned value 2^64 + v (0 - 1 is stored as -1 and read as 2^64 - 1).   *)
(***************************************************************************)
EXTENDS Integers, Sequences, FiniteSets, TLC

VARIABLES skipList, m_size, last, calls

vars == <<skipList, m_size, last, calls>>

(***************************************************************************)
(* Bounds and input sets.                                                  *)
(***************************************************************************)
\* nMaxPackets handed to the constructor
MaxPackets == 2
\* the number of calls the caller makes on one index
MaxCalls == 7

\* the full names the caller inserts, erases and asks for
Names == { <<1>>, <<1, 1>>, <<1, 2>> }
\* the names of queries (the root name included)
QueryNames == Names \cup { <<>> }

EXISTED == "EXISTED"
INSERTED == "INSERTED"
DELETED == "DELETED"
NONE == "NONE"

\* an empty KeyLocator, and an unset ConstBufferPtr
NoKeyLocator == "none"
NullHash == "null"

(***************************************************************************)
(* ndn::Name as index.cpp uses it.                                         *)
(***************************************************************************)
MinOf(a, b) == IF a < b THEN a ELSE b

\* Name::operator==
NameEq(a, b) == a = b

\* Name::operator< : canonical order, component by component, a proper
\* prefix before its extensions
NameLess(a, b) ==
  \E i \in 1..(MinOf(Len(a), Len(b)) + 1) :
    /\ \A j \in 1..(i - 1) : a[j] = b[j]
    /\ \/ i <= Len(a) /\ i <= Len(b) /\ a[i] < b[i]
       \/ i = Len(a) + 1 /\ i <= Len(b)

\* Name::isPrefixOf
IsPrefixOf(p, n) ==
  /\ Len(p) <= Len(n)
  /\ \A j \in 1..Len(p) : p[j] = n[j]

\* Name::getPrefix(n) for n >= 0: the first n components, all when n > size
GetPrefix(name, n) == SubSeq(name, 1, MinOf(n, Len(name)))

\* Name::getSuccessor: the last component replaced by its successor; the
\* successor of the empty name is the name of the one component 0
GetSuccessor(name) ==
  IF Len(name) = 0
    THEN <<0>>
    ELSE [name EXCEPT ![Len(name)] = name[Len(name)] + 1]

\* ndn::crypto::sha256 of the wire encoding: one digest per key locator
ComputeKeyLocatorHash(keyLocator) ==
  CASE keyLocator = "K1" -> "H1"
    [] keyLocator = "K2" -> "H2"

(***************************************************************************)
(* Index::Entry                                                            *)
(***************************************************************************)
\* Entry(const Data&, id): the hash is set only when the signature has a
\* key locator
EntryFromData(data, id) ==
  [ name |-> data.name,
    id |-> id,
    keyLocatorHash |-> IF data.keyLocator = NoKeyLocator
                         THEN NullHash
                         ELSE ComputeKeyLocatorHash(data.keyLocator),
    status |-> EXISTED ]

\* Entry(const Name&, const ConstBufferPtr&, id)
EntryFromHash(fullName, keyLocatorHash, id) ==
  [ name |-> fullName, id |-> id, keyLocatorHash |-> keyLocatorHash,
    status |-> EXISTED ]

\* Entry::setStatus
SetStatus(entry, status) == [entry EXCEPT !.status = status]

(***************************************************************************)
(* The container (skiplist.hpp): a set of entries ordered by name alone.   *)
(***************************************************************************)
End(list) == Len(list) + 1

\* lower_bound: the first position whose name is not less than the name
LowerBound(list, name) ==
  IF \E i \in 1..Len(list) : ~NameLess(list[i].name, name)
    THEN CHOOSE i \in 1..Len(list) :
           /\ ~NameLess(list[i].name, name)
           /\ \A j \in 1..(i - 1) : NameLess(list[j].name, name)
    ELSE End(list)

\* find: the position of the entry of that name, or end()
SkipFind(list, name) ==
  LET i == LowerBound(list, name)
  IN  IF i # End(list) /\ NameEq(list[i].name, name) THEN i ELSE End(list)

\* insert: refused (second = FALSE) when the name is occupied
SkipInsert(list, entry) ==
  LET i == LowerBound(list, entry.name)
  IN  IF i # End(list) /\ NameEq(list[i].name, entry.name)
        THEN [list |-> list, second |-> FALSE]
        ELSE [list |-> SubSeq(list, 1, i - 1) \o <<entry>>
                         \o SubSeq(list, i, Len(list)),
              second |-> TRUE]

\* erase(iterator): the next entry takes the position
SkipErase(list, i) == SubSeq(list, 1, i - 1) \o SubSeq(list, i + 1, Len(list))

(***************************************************************************)
(* Index                                                                   *)
(***************************************************************************)
m_maxPackets == MaxPackets

\* Index::isFull
IsFull(size) == size = m_maxPackets


\* the pair find returns when nothing matches: (0, Name())
NotFound == [id |-> 0, name |-> <<>>]

\* the container between lines 111 and 113 (89 and 91) of Index::insert:
\* the tombstone found is out and the new entry is not yet in
InsertIntermediate(list, entry) ==
  LET result == SkipFind(list, entry.name)
  IN  IF result # End(list) /\ list[result].status = DELETED
        THEN SkipErase(list, result)
        ELSE list

\* InsertLookup that counts a resurrection only, not the insert of a new
\* name
InsertLookupCountsRevivalOnly(list, size, entry) ==
  LET result == SkipFind(list, entry.name)
      fresh == SkipInsert(list, entry)
      revived == SkipInsert(SkipErase(list, result),
                            SetStatus(entry, INSERTED))
      isInserted == IF result = End(list) THEN fresh.second
                    ELSE IF list[result].status = DELETED
                           THEN revived.second
                           ELSE FALSE
      after == IF result = End(list) THEN fresh.list
               ELSE IF list[result].status = DELETED THEN revived.list
                    ELSE list
  IN  [out |-> "return", ret |-> isInserted, list |-> after,
       size |-> IF isInserted /\ result # End(list) THEN size + 1 ELSE size]

\* InsertLookup that replaces a live entry of the name by the new entry
InsertLookupReplacesLive(list, size, entry) ==
  LET result == SkipFind(list, entry.name)
      fresh == SkipInsert(list, entry)
      revived == SkipInsert(SkipErase(list, result),
                            SetStatus(entry, INSERTED))
      isInserted == IF result = End(list) THEN fresh.second
                    ELSE IF list[result].status = DELETED
                           THEN revived.second
                           ELSE FALSE
      after == IF result = End(list) THEN fresh.list
               ELSE IF list[result].status = DELETED THEN revived.list
                    ELSE [list EXCEPT ![result] = entry]
  IN  [out |-> "return", ret |-> isInserted, list |-> after,
       size |-> IF isInserted THEN size + 1 ELSE size]

\* InsertLookup that leaves the tombstone in place before inserting the
\* new entry, which the container then refuses
InsertLookupOverTombstone(list, size, entry) ==
  LET result == SkipFind(list, entry.name)
      fresh == SkipInsert(list, entry)
      revived == SkipInsert(list, SetStatus(entry, INSERTED))
      isInserted == IF result = End(list) THEN fresh.second
                    ELSE IF list[result].status = DELETED
                           THEN revived.second
                           ELSE FALSE
      after == IF result = End(list) THEN fresh.list
               ELSE IF list[result].status = DELETED THEN revived.list
                    ELSE list
  IN  [out |-> "return", ret |-> isInserted, list |-> after,
       size |-> IF isInserted THEN size + 1 ELSE size]

\* Index::insert, lines 104-117 (and 82-95): the lookup and what follows it
InsertLookup(list, size, entry) ==
  LET result == SkipFind(list, entry.name)
      fresh == SkipInsert(list, entry)
      revived == SkipInsert(SkipErase(list, result),
                            SetStatus(entry, INSERTED))
      isInserted == IF result = End(list) THEN fresh.second
                    ELSE IF list[result].status = DELETED
                           THEN revived.second
                           ELSE FALSE
      after == IF result = End(list) THEN fresh.list
               ELSE IF list[result].status = DELETED THEN revived.list
                    ELSE list
  IN  [out |-> "return", ret |-> isInserted, list |-> after,
       size |-> IF isInserted THEN size + 1 ELSE size]

\* InsertEntry without the isFull check
InsertEntryUnchecked(list, size, entry) == InsertLookup(list, size, entry)

\* Index::insert, both overloads: what the body does to (m_skipList, m_size)
\* once the Entry is built
InsertEntry(list, size, entry) ==
  IF IsFull(size)
    THEN [out |-> "throw", ret |-> FALSE, list |-> list, size |-> size]
    ELSE InsertLookup(list, size, entry)

\* the container between lines 198 and 199 of Index::erase: the entry found
\* is out and its DELETED copy is not yet in
EraseIntermediate(list, fullName) ==
  LET findIterator == SkipFind(list, fullName)
  IN  IF findIterator # End(list) THEN SkipErase(list, findIterator)
      ELSE list

\* EraseEntry that puts the DELETED copy in without taking the entry out
EraseEntryNoRemove(list, size, fullName) ==
  LET findIterator == SkipFind(list, fullName)
  IN  IF findIterator # End(list)
        THEN
          LET remove == SetStatus(list[findIterator], DELETED)
              again == SkipInsert(list, remove)
          IN  IF ~again.second
                THEN [out |-> "throw", ret |-> FALSE, list |-> list,
                      size |-> size]
                ELSE [out |-> "return", ret |-> TRUE, list |-> again.list,
                      size |-> size - 1]
        ELSE [out |-> "return", ret |-> FALSE, list |-> list, size |-> size]

\* EraseEntry that takes the entry out of the container for good
EraseEntryRemoves(list, size, fullName) ==
  LET findIterator == SkipFind(list, fullName)
  IN  IF findIterator # End(list)
        THEN [out |-> "return", ret |-> TRUE,
              list |-> SkipErase(list, findIterator), size |-> size - 1]
        ELSE [out |-> "return", ret |-> FALSE, list |-> list, size |-> size]

\* EraseEntry that looks the name up as a prefix: it deletes the first
\* entry at or after the name that the name is a prefix of
EraseEntryByPrefix(list, size, fullName) ==
  LET lower == LowerBound(list, fullName)
      findIterator == IF /\ lower # End(list)
                         /\ IsPrefixOf(fullName, list[lower].name)
                        THEN lower ELSE End(list)
  IN  IF findIterator # End(list)
        THEN [out |-> "return", ret |-> TRUE,
              list |-> [list EXCEPT ![findIterator].status = DELETED],
              size |-> size - 1]
        ELSE [out |-> "return", ret |-> FALSE, list |-> list, size |-> size]

\* EraseEntry that does not decrement m_size
EraseEntryKeepsSize(list, size, fullName) ==
  LET findIterator == SkipFind(list, fullName)
  IN  IF findIterator # End(list)
        THEN [out |-> "return", ret |-> TRUE,
              list |-> [list EXCEPT ![findIterator].status = DELETED],
              size |-> size]
        ELSE [out |-> "return", ret |-> FALSE, list |-> list, size |-> size]

\* Index::erase: what the body does to (m_skipList, m_size)
EraseEntry(list, size, fullName) ==
  LET findIterator == SkipFind(list, fullName)
  IN  IF findIterator # End(list)
        THEN
          LET remove == SetStatus(list[findIterator], DELETED)
              erased == SkipErase(list, findIterator)
              again == SkipInsert(erased, remove)
          IN  IF ~again.second
                THEN [out |-> "throw", ret |-> FALSE, list |-> erased,
                      size |-> size]
                ELSE [out |-> "return", ret |-> TRUE, list |-> again.list,
                      size |-> size - 1]
        ELSE [out |-> "return", ret |-> FALSE, list |-> list, size |-> size]

\* RemoveDeletedFrom that steps on after an erasure, over the entry that
\* took the place of the erased one
RECURSIVE RemoveDeletedSkipsNext(_, _)
RemoveDeletedSkipsNext(list, iter) ==
  IF iter >= End(list) THEN list
  ELSE IF list[iter].status = DELETED
         THEN RemoveDeletedSkipsNext(SkipErase(list, iter), iter + 1)
         ELSE RemoveDeletedSkipsNext(list, iter + 1)

\* Index::removeDeletedEntry: the sweep, from position i on
RECURSIVE RemoveDeletedFrom(_, _)
RemoveDeletedFrom(list, iter) ==
  IF iter = End(list) THEN list
  ELSE IF list[iter].status = DELETED
         THEN RemoveDeletedFrom(SkipErase(list, iter), iter)
         ELSE RemoveDeletedFrom(list, iter + 1)

\* StatusOf that answers for an entry of exactly that name only
StatusOfExact(list, name) ==
  LET result == SkipFind(list, name)
  IN  IF result = End(list) THEN NONE ELSE list[result].status

\* Index::getStatus
StatusOf(list, name) ==
  LET result == LowerBound(list, name)
  IN  IF result = End(list) THEN NONE
      ELSE IF IsPrefixOf(name, list[result].name) THEN list[result].status
           ELSE NONE

\* Index::hasData
HasDataOf(list, fullName) ==
  LET result == SkipFind(list, fullName)
  IN  result # End(list) /\ list[result].status # DELETED

\* FindFirstEntry that does not step over DELETED entries
FindFirstEntryNoSkip(list, prefix, iter) ==
  IF iter = End(list) THEN NotFound
  ELSE IF IsPrefixOf(prefix, list[iter].name)
         THEN [id |-> list[iter].id, name |-> list[iter].name]
         ELSE NotFound

\* Index::findFirstEntry
RECURSIVE FindFirstEntry(_, _, _)
FindFirstEntry(list, prefix, iter) ==
  IF iter = End(list) THEN NotFound
  ELSE IF list[iter].status = DELETED
         THEN FindFirstEntry(list, prefix, iter + 1)
         ELSE IF IsPrefixOf(prefix, list[iter].name)
                THEN [id |-> list[iter].id, name |-> list[iter].name]
                ELSE NotFound

\* Index::find(const Name&)
FindByName(list, name) ==
  LET result == LowerBound(list, name)
  IN  IF result # End(list) THEN FindFirstEntry(list, name, result)
      ELSE NotFound


(***************************************************************************)
(* Selector resolution.  An Interest is a record of the fields index.cpp   *)
(* reads: name, childSelector, minSuffixComponents, maxSuffixComponents,   *)
(* exclude (the set of excluded components) and keyLocator.                *)
(***************************************************************************)
\* MatchesSimpleSelectors that holds the length of the whole name, not of
\* the suffix, against the suffix bounds
MatchesSimpleSelectorsFullLength(interest, entry) ==
  LET fullName == entry.name
      nSuffixComponents == Len(fullName)
  IN  IF entry.status = DELETED THEN "no"
      ELSE IF ~IsPrefixOf(interest.name, fullName) THEN "no"
      ELSE IF /\ interest.minSuffixComponents >= 0
              /\ nSuffixComponents < interest.minSuffixComponents THEN "no"
      ELSE IF /\ interest.maxSuffixComponents >= 0
              /\ nSuffixComponents > interest.maxSuffixComponents THEN "no"
      ELSE IF /\ interest.exclude # {}
              /\ Len(entry.name) > Len(interest.name)
              /\ entry.name[Len(interest.name) + 1] \in interest.exclude
             THEN "no"
      ELSE IF interest.keyLocator # NoKeyLocator
             THEN IF entry.keyLocatorHash = NullHash THEN "undefined"
                  ELSE IF entry.keyLocatorHash
                            # ComputeKeyLocatorHash(interest.keyLocator)
                         THEN "no"
                         ELSE "yes"
      ELSE "yes"

\* matchesSimpleSelectors: "yes", "no", or "undefined" when line 56
\* dereferences the unset keyLocatorHash of the entry
MatchesSimpleSelectors(interest, entry) ==
  LET fullName == entry.name
      nSuffixComponents == Len(fullName) - Len(interest.name)
  IN  IF entry.status = DELETED THEN "no"
      ELSE IF ~IsPrefixOf(interest.name, fullName) THEN "no"
      ELSE IF /\ interest.minSuffixComponents >= 0
              /\ nSuffixComponents < interest.minSuffixComponents THEN "no"
      ELSE IF /\ interest.maxSuffixComponents >= 0
              /\ nSuffixComponents > interest.maxSuffixComponents THEN "no"
      ELSE IF /\ interest.exclude # {}
              /\ Len(entry.name) > Len(interest.name)
              /\ entry.name[Len(interest.name) + 1] \in interest.exclude
             THEN "no"
      ELSE IF interest.keyLocator # NoKeyLocator
             THEN IF entry.keyLocatorHash = NullHash THEN "undefined"
                  ELSE IF entry.keyLocatorHash
                            # ComputeKeyLocatorHash(interest.keyLocator)
                         THEN "no"
                         ELSE "yes"
      ELSE "yes"

Returned(entry) ==
  [out |-> "return", found |-> [id |-> entry.id, name |-> entry.name]]
ReturnedNotFound == [out |-> "return", found |-> NotFound]
\* the call never returns
Hangs == [out |-> "hang", found |-> NotFound]
\* the call ran into undefined behaviour
Undefined == [out |-> "undefined", found |-> NotFound]

\* selectChild, lines 245-254: the forward scan of the leftmost selector
RECURSIVE SelectLeftmost(_, _, _)
SelectLeftmost(list, interest, it) ==
  IF it = End(list) THEN ReturnedNotFound
  ELSE IF list[it].status = DELETED
         THEN SelectLeftmost(list, interest, it + 1)
  ELSE IF ~IsPrefixOf(interest.name, list[it].name) THEN ReturnedNotFound
  ELSE LET m == MatchesSimpleSelectors(interest, list[it])
       IN  IF m = "undefined" THEN Undefined
           ELSE IF m = "yes" THEN Returned(list[it])
           ELSE SelectLeftmost(list, interest, it + 1)

\* the loops of lines 259-260, 266-267 and 284-285
RECURSIVE SkipDeleted(_, _)
SkipDeleted(list, it) ==
  IF it # End(list) /\ list[it].status = DELETED
    THEN SkipDeleted(list, it + 1)
    ELSE it

\* std::find_if(first, last, matchesSimpleSelectors): the first position in
\* [first, last) that matches, last when none does, -1 when an evaluation
\* of the predicate is undefined
RECURSIVE FindIf(_, _, _, _)
FindIf(list, interest, first, lastIt) ==
  IF first = lastIt THEN lastIt
  ELSE LET m == MatchesSimpleSelectors(interest, list[first])
       IN  IF m = "undefined" THEN -1
           ELSE IF m = "yes" THEN first
           ELSE FindIf(list, interest, first + 1, lastIt)

\* selectChild, lines 268-293: the loop of the rightmost selector, entered
\* with the window end lastIt.  An iteration that finds nothing and leaves
\* lastIt where it was is repeated for ever.
RECURSIVE SelectRightmostLoop(_, _, _, _)
SelectRightmostLoop(list, interest, boundary, lastIt) ==
  LET prev == lastIt - 1
  IN  IF prev = 0 THEN Undefined
      ELSE IF prev = boundary /\ list[prev].status # DELETED
        THEN LET isMatch == MatchesSimpleSelectors(interest, list[prev])
             IN  IF isMatch = "undefined" THEN Undefined
                 ELSE IF isMatch = "yes" THEN Returned(list[prev])
                 ELSE ReturnedNotFound
      ELSE
        LET first == SkipDeleted(list,
                       LowerBound(list, GetPrefix(list[prev].name,
                                                  Len(interest.name) + 1)))
            match == FindIf(list, interest, first, lastIt)
        IN  IF match = -1 THEN Undefined
            ELSE IF match # lastIt THEN Returned(list[match])
            ELSE IF first = lastIt THEN Hangs
            ELSE SelectRightmostLoop(list, interest, boundary, first)

\* selectChild, lines 258-267: the window of the rightmost selector
SelectRightmost(list, interest) ==
  LET boundary == SkipDeleted(list, LowerBound(list, interest.name))
      lastIt == SkipDeleted(list,
                  IF Len(interest.name) = 0 THEN End(list)
                  ELSE LowerBound(list, GetSuccessor(interest.name)))
  IN  IF \/ boundary = End(list)
         \/ ~IsPrefixOf(interest.name, list[boundary].name)
        THEN ReturnedNotFound
        ELSE SelectRightmostLoop(list, interest, boundary, lastIt)

\* selectChild, lines 268-293, followed for where its iterators go: FALSE
\* when an iteration decrements begin() (line 271) or truncates the name of
\* an entry that is no descendant of the query name (line 283)
RECURSIVE WindowStaysInside(_, _, _, _)
WindowStaysInside(list, interest, boundary, lastIt) ==
  LET prev == lastIt - 1
  IN  IF prev = 0 THEN FALSE
      ELSE IF prev = boundary /\ list[prev].status # DELETED THEN TRUE
      ELSE IF ~IsPrefixOf(interest.name, list[prev].name) THEN FALSE
      ELSE
        LET first == SkipDeleted(list,
                       LowerBound(list, GetPrefix(list[prev].name,
                                                  Len(interest.name) + 1)))
            match == FindIf(list, interest, first, lastIt)
        IN  IF match = -1 \/ match # lastIt \/ first = lastIt THEN TRUE
            ELSE WindowStaysInside(list, interest, boundary, first)

\* selectChild, lines 258-293, for a rightmost query: the scan window stays
\* inside the container and the descendant range
RightmostStaysInside(list, interest) ==
  LET boundary == SkipDeleted(list, LowerBound(list, interest.name))
      lastIt == SkipDeleted(list,
                  IF Len(interest.name) = 0 THEN End(list)
                  ELSE LowerBound(list, GetSuccessor(interest.name)))
  IN  IF \/ boundary = End(list)
         \/ ~IsPrefixOf(interest.name, list[boundary].name)
        THEN TRUE
        ELSE WindowStaysInside(list, interest, boundary, lastIt)

\* Index::selectChild
SelectChild(list, interest, startingPoint) ==
  LET isLeftmost == interest.childSelector <= 0
  IN  IF isLeftmost THEN SelectLeftmost(list, interest, startingPoint)
      ELSE SelectRightmost(list, interest)

\* Index::find(const Interest&)
FindByInterest(list, interest) ==
  LET result == LowerBound(list, interest.name)
  IN  IF result # End(list) THEN SelectChild(list, interest, result)
      ELSE ReturnedNotFound


(***************************************************************************)
(* The calls.  last records the latest call of the caller: the operation,  *)
(* its arguments, how it ended (out: "return", "throw", "hang" for a call  *)
(* that never returns, "fault" for a call that crashed) and what it        *)
(* returned.  It also keeps what the call sequences under study need of    *)
(* the call before:                                                        *)
(*   sizePre     of an erase: m_size before it; of an insert that came     *)
(*               right after an erase returning true: m_size before that   *)
(*               erase;                                                    *)
(*   afterErase  of an insert: the call before was an erase returning true;*)
(*   revival     "erased" for an erase(n) that came right after an         *)
(*               insert(n) returning true, "reinserted" for the insert(n)  *)
(*               that came right after that erase;                         *)
(*   removed     of a prune: the names the sweep took out;                 *)
(*   visited     of an entryEnumeration: what the visitor was called with; *)
(*   book        "inserts" while every call on the index so far was an     *)
(*               insert of a new name that returned true, "erases" once    *)
(*               such inserts have been followed by erases only, each of a *)
(*               name inserted and not erased before, "off" otherwise;     *)
(*   k, j        while book is not "off": the number of those inserts and  *)
(*               of those erases.                                          *)
(***************************************************************************)
\* (keyLocator of the signature, id) of the Data packets the caller inserts
DataPackets == { [keyLocator |-> "K1", id |-> 1],
                 [keyLocator |-> NoKeyLocator, id |-> 2] }
\* (precomputed hash, id) the caller inserts by name
HashPackets == { [keyLocatorHash |-> "H1", id |-> 1] }

\* an Interest with no selector set, for the root name
NoInterest ==
  [name |-> <<>>, childSelector |-> 0, minSuffixComponents |-> -1,
   maxSuffixComponents |-> -1, exclude |-> {}, keyLocator |-> NoKeyLocator]
\* the queries the caller issues
CalledInterests ==
  { [NoInterest EXCEPT !.name = <<1>>],
    [NoInterest EXCEPT !.name = <<1>>, !.exclude = {1}],
    [NoInterest EXCEPT !.name = <<1>>, !.minSuffixComponents = 2],
    [NoInterest EXCEPT !.name = <<1>>, !.keyLocator = "K1"],
    [NoInterest EXCEPT !.name = <<1>>, !.childSelector = 1],
    [NoInterest EXCEPT !.name = <<1>>, !.childSelector = 1,
                       !.exclude = {2}],
    [NoInterest EXCEPT !.childSelector = 1, !.minSuffixComponents = 2] }

NoCall ==
  [op |-> "none", name |-> <<>>, id |-> 0, out |-> "return", ret |-> FALSE,
   status |-> NONE, found |-> NotFound, interest |-> NoInterest,
   undefined |-> FALSE, revival |-> "none", afterErase |-> FALSE,
   sizePre |-> 0, removed |-> {}, visited |-> <<>>, book |-> "off",
   k |-> 0, j |-> 0]

\* the process is alive: no call has hung or crashed
Running == last.out \in {"return", "throw"}

\* the names that occupy the container
EntryNames(list) == { list[i].name : i \in 1..Len(list) }

\* one more call of the caller, of the MaxCalls it makes
Called == calls < MaxCalls /\ calls' = calls + 1

\* Index::Index
Init ==
  /\ skipList = <<>>
  /\ m_size = 0
  /\ calls = 0
  /\ last = [NoCall EXCEPT !.book = "inserts"]

\* the body shared by the two insert overloads
InsertCall(entry) ==
  LET r == InsertEntry(skipList, m_size, entry)
      afterErase == last.op = "erase" /\ last.out = "return" /\ last.ret
      second == afterErase /\ last.revival = "erased"
                  /\ last.name = entry.name
      counted == /\ last.book = "inserts"
                 /\ entry.name \notin EntryNames(skipList)
                 /\ r.out = "return" /\ r.ret
  IN  /\ Running
      /\ Called
      /\ skipList' = r.list
      /\ m_size' = r.size
      /\ last' = [NoCall EXCEPT !.op = "insert", !.name = entry.name,
                                !.id = entry.id, !.out = r.out,
                                !.ret = r.ret,
                                !.revival = IF second THEN "reinserted"
                                            ELSE "none",
                                !.afterErase = afterErase,
                                !.sizePre = IF afterErase THEN last.sizePre
                                            ELSE 0,
                                !.book = IF counted THEN "inserts" ELSE "off",
                                !.k = IF counted THEN last.k + 1 ELSE 0]

\* Index::insert(const Data&, id)
InsertData ==
  \E n \in Names, p \in DataPackets :
    InsertCall(EntryFromData([name |-> n, keyLocator |-> p.keyLocator], p.id))

\* Index::insert(const Name&, id, keyLocatorHash)
InsertName ==
  \E n \in Names, p \in HashPackets :
    InsertCall(EntryFromHash(n, p.keyLocatorHash, p.id))

\* Index::erase
Erase ==
  \E n \in Names :
    LET r == EraseEntry(skipList, m_size, n)
        afterInsert == last.op = "insert" /\ last.name = n
                         /\ last.out = "return" /\ last.ret
        counted == /\ last.book \in {"inserts", "erases"}
                   /\ HasDataOf(skipList, n)
                   /\ r.out = "return" /\ r.ret
    IN  /\ Running
        /\ Called
        /\ skipList' = r.list
        /\ m_size' = r.size
        /\ last' = [NoCall EXCEPT !.op = "erase", !.name = n, !.out = r.out,
                                  !.ret = r.ret,
                                  !.revival = IF afterInsert THEN "erased"
                                              ELSE "none",
                                  !.sizePre = m_size,
                                  !.book = IF counted THEN "erases" ELSE "off",
                                  !.k = IF counted THEN last.k ELSE 0,
                                  !.j = IF counted THEN last.j + 1 ELSE 0]

\* Index::removeDeletedEntry (prune)
RemoveDeletedEntry ==
  /\ Running
  /\ Called
  /\ skipList' = RemoveDeletedFrom(skipList, 1)
  /\ m_size' = m_size
  /\ last' = [NoCall EXCEPT !.op = "prune",
                            !.removed = EntryNames(skipList)
                                          \ EntryNames(skipList')]

\* what entryEnumeration hands to the visitor, call by call
Visited(list) ==
  [i \in 1..Len(list) |-> [name |-> list[i].name, status |-> list[i].status]]

\* Index::entryEnumeration
EntryEnumeration ==
  /\ Running
  /\ Called
  /\ last' = [NoCall EXCEPT !.op = "entryEnumeration",
                            !.visited = Visited(skipList)]
  /\ UNCHANGED <<skipList, m_size>>

\* Index::getStatus
GetStatus ==
  \E n \in Names :
    /\ Running
    /\ Called
    /\ last' = [NoCall EXCEPT !.op = "getStatus", !.name = n,
                              !.status = StatusOf(skipList, n)]
    /\ UNCHANGED <<skipList, m_size>>

\* Index::hasData
HasData ==
  \E n \in Names :
    /\ Running
    /\ Called
    /\ last' = [NoCall EXCEPT !.op = "hasData", !.name = n,
                              !.ret = HasDataOf(skipList, n)]
    /\ UNCHANGED <<skipList, m_size>>

\* Index::find(const Name&)
FindName ==
  \E n \in Names :
    /\ Running
    /\ Called
    /\ last' = [NoCall EXCEPT !.op = "findName", !.name = n,
                              !.found = FindByName(skipList, n)]
    /\ UNCHANGED <<skipList, m_size>>

\* what a call that ran into undefined behaviour can end as: a crash, no
\* return, or the return of the not-found pair
UndefinedOutcomes ==
  { [out |-> "fault", found |-> NotFound], Hangs, ReturnedNotFound }

\* Index::find(const Interest&)
FindInterest ==
  \E interest \in CalledInterests :
    LET r == FindByInterest(skipList, interest)
    IN  /\ Running
        /\ Called
        /\ \E o \in (IF r.out = "undefined" THEN UndefinedOutcomes
                     ELSE {r}) :
             last' = [NoCall EXCEPT !.op = "find", !.name = interest.name,
                                    !.interest = interest, !.out = o.out,
                                    !.found = o.found,
                                    !.undefined = (r.out = "undefined")]
        /\ UNCHANGED <<skipList, m_size>>

Next ==
  \/ InsertData
  \/ InsertName
  \/ Erase
  \/ RemoveDeletedEntry
  \/ EntryEnumeration
  \/ GetStatus
  \/ HasData
  \/ FindName
  \/ FindInterest

Spec == Init /\ [][Next]_vars


(***************************************************************************)
(* Properties.                                                             *)
(***************************************************************************)
IsLive(entry) == entry.status # DELETED
LiveCount(list) == Cardinality({ i \in 1..Len(list) : IsLive(list[i]) })
Tombstones(list) ==
  { list[i].name : i \in { j \in 1..Len(list) : list[j].status = DELETED } }

\* C1: m_size equals the number of entries in the container whose status
\* is not DELETED.
SizeCountsLive == m_size = LiveCount(skipList)

\* C2: the unsigned value of m_size is at most the maximum the index was
\* constructed with (a negative representative is a value near 2^64).
SizeWithinMax == m_size >= 0 /\ m_size <= MaxPackets

\* C3: an insert called while m_size equals the maximum throws and leaves
\* container and size as they were; and while the container holds fewer
\* than the maximum of entries, all of them live and counted by m_size (as
\* after that many inserts of distinct names into a new index), the insert
\* of one more name returns true and adds it.
InsertRefusedWhenFull ==
  [][ last'.op = "insert" =>
        /\ m_size = MaxPackets =>
             /\ last'.out = "throw"
             /\ skipList' = skipList
             /\ m_size' = m_size
        /\ ( /\ \A i \in 1..Len(skipList) : IsLive(skipList[i])
             /\ m_size = Len(skipList)
             /\ m_size < MaxPackets
             /\ last'.name \notin EntryNames(skipList) ) =>
             /\ last'.out = "return" /\ last'.ret
             /\ m_size' = m_size + 1
             /\ EntryNames(skipList') = EntryNames(skipList) \cup {last'.name}
             /\ \A i \in 1..Len(skipList') : IsLive(skipList'[i])
    ]_vars

\* C3 witness: the index was filled with MaxPackets live names and the
\* next insert was refused.
InsertRefusedWitness ==
  /\ last.op = "insert" /\ last.out = "throw"
  /\ m_size = MaxPackets
  /\ Len(skipList) = MaxPackets
  /\ \A i \in 1..Len(skipList) : IsLive(skipList[i])

\* an erase that has just returned true on a full index
ErasedWhenFull ==
  /\ last.op = "erase" /\ last.out = "return" /\ last.ret
  /\ last.sizePre = MaxPackets

\* C4 as stated: after an erase on a full index, the insert of a new name
\* that follows it (no prune in between) still throws.
InsertAfterEraseStillRefused ==
  [][ ( /\ ErasedWhenFull
        /\ last'.op = "insert"
        /\ last'.name \notin EntryNames(skipList) ) =>
        last'.out = "throw"
    ]_vars

\* C4 amended: after an erase that returned true on a full index, the
\* insert of a new name that follows it (no prune in between) returns true
\* and brings m_size back to the maximum.
InsertAfterEraseAdmitted ==
  [][ ( /\ ErasedWhenFull
        /\ last'.op = "insert"
        /\ last'.name \notin EntryNames(skipList) ) =>
        /\ last'.out = "return" /\ last'.ret
        /\ m_size' = MaxPackets
        /\ skipList'[SkipFind(skipList', last'.name)].status = EXISTED
    ]_vars

\* C4 witness: a new name was inserted right after an erase on a full
\* index, with the tombstone still in the container.
InsertAfterEraseWitness ==
  /\ last.op = "insert" /\ last.afterErase /\ last.sizePre = MaxPackets
  /\ last.out = "return" /\ last.ret
  /\ m_size = MaxPackets
  /\ Tombstones(skipList) # {}
  /\ skipList[SkipFind(skipList, last.name)].status = EXISTED

\* C5: after insert(n, id1) returning true, erase(n), insert(n, id2), the
\* second insert has returned true, exactly one entry has the name n, it
\* is live and carries id2, hasData is true, find(n) returns (id2, n), and
\* m_size is what it was before the erase.
Resurrection ==
  (last.op = "insert" /\ last.revival = "reinserted") =>
    /\ last.out = "return" /\ last.ret
    /\ Cardinality({ i \in 1..Len(skipList) :
                       skipList[i].name = last.name }) = 1
    /\ \A i \in 1..Len(skipList) :
         skipList[i].name = last.name =>
           /\ IsLive(skipList[i])
           /\ skipList[i].id = last.id
    /\ HasDataOf(skipList, last.name)
    /\ FindByName(skipList, last.name) = [id |-> last.id, name |-> last.name]
    /\ m_size = last.sizePre

\* C5 witness: the second insert of the sequence has returned.
ResurrectionWitness ==
  /\ last.op = "insert" /\ last.revival = "reinserted"
  /\ last.ret
  /\ \E i \in 1..Len(skipList) :
       skipList[i].name = last.name /\ skipList[i].status = INSERTED

\* the status of the first entry, in canonical order, that has the name as
\* a prefix; NONE when there is none
FirstDescendantStatus(list, name) ==
  LET D == { i \in 1..Len(list) : IsPrefixOf(name, list[i].name) }
  IN  IF D = {} THEN NONE
      ELSE list[CHOOSE i \in D :
                  \A j \in D : ~NameLess(list[j].name, list[i].name)].status

\* C6 as stated: while the tombstone of an erased name is in the container
\* getStatus of the name is DELETED, and right after prune it is NONE.
StatusNoneAfterPrune ==
  [][ \A n \in Names :
        n \in Tombstones(skipList) =>
          /\ StatusOf(skipList, n) = DELETED
          /\ last'.op = "prune" => StatusOf(skipList', n) = NONE
    ]_vars

\* C6 amended: while the tombstone of an erased name is in the container
\* getStatus of the name is DELETED; right after prune it is NONE when no
\* remaining entry has the name as a prefix, and otherwise the status of
\* the first remaining entry that has the name as a prefix.
StatusAfterPrune ==
  [][ \A n \in Names :
        n \in Tombstones(skipList) =>
          /\ StatusOf(skipList, n) = DELETED
          /\ last'.op = "prune" =>
               /\ n \notin EntryNames(skipList')
               /\ StatusOf(skipList', n) = FirstDescendantStatus(skipList', n)
               /\ StatusOf(skipList', n) # DELETED
    ]_vars

\* C6 witness: prune has removed the tombstone of a name of which a live
\* descendant remains, and that of a name of which none remains.
StatusAfterPruneWitness ==
  /\ last.op = "prune"
  /\ \E n \in last.removed : StatusOf(skipList, n) \in {EXISTED, INSERTED}
  /\ \E n \in last.removed : StatusOf(skipList, n) = NONE

\* the pair of the first entry, in canonical order, that is live and has
\* the name as a prefix; the not-found pair when there is none
FirstLiveDescendant(list, name) ==
  LET D == { i \in 1..Len(list) :
               IsLive(list[i]) /\ IsPrefixOf(name, list[i].name) }
      f == CHOOSE i \in D : \A j \in D : ~NameLess(list[j].name, list[i].name)
  IN  IF D = {} THEN NotFound
      ELSE [id |-> list[f].id, name |-> list[f].name]

\* C7: find(name) returns the first live entry that has the name as a
\* prefix, not-found when there is none; for a live entry of exactly that
\* name it returns that entry's id and name.
FindNameFirstLive ==
  /\ \A n \in QueryNames :
       FindByName(skipList, n) = FirstLiveDescendant(skipList, n)
  /\ \A i \in 1..Len(skipList) :
       IsLive(skipList[i]) =>
         FindByName(skipList, skipList[i].name)
           = [id |-> skipList[i].id, name |-> skipList[i].name]
  /\ last.op = "findName" =>
       last.found = FirstLiveDescendant(skipList, last.name)

\* C7 witness: find(name) has skipped the tombstone of the name itself and
\* returned a live descendant.
FindNameWitness ==
  /\ last.op = "findName"
  /\ last.name \in Tombstones(skipList)
  /\ last.found # NotFound
  /\ last.found.name # last.name


\* the simple-selector predicate as the specification states it: an entry
\* without key-locator hash differs from every digest
Satisfies(interest, entry) ==
  /\ IsLive(entry)
  /\ IsPrefixOf(interest.name, entry.name)
  /\ interest.minSuffixComponents >= 0 =>
       Len(entry.name) - Len(interest.name) >= interest.minSuffixComponents
  /\ interest.maxSuffixComponents >= 0 =>
       Len(entry.name) - Len(interest.name) <= interest.maxSuffixComponents
  /\ Len(entry.name) > Len(interest.name) =>
       entry.name[Len(interest.name) + 1] \notin interest.exclude
  /\ interest.keyLocator # NoKeyLocator =>
       /\ entry.keyLocatorHash # NullHash
       /\ entry.keyLocatorHash = ComputeKeyLocatorHash(interest.keyLocator)

Matching(list, interest) ==
  { i \in 1..Len(list) : Satisfies(interest, list[i]) }

\* the reference answers: the first and the last entry, in canonical
\* order, that satisfy the predicate
FirstMatch(list, interest) ==
  LET M == Matching(list, interest)
      f == CHOOSE i \in M : \A j \in M : ~NameLess(list[j].name, list[i].name)
  IN  IF M = {} THEN ReturnedNotFound ELSE Returned(list[f])
LastMatch(list, interest) ==
  LET M == Matching(list, interest)
      f == CHOOSE i \in M : \A j \in M : ~NameLess(list[i].name, list[j].name)
  IN  IF M = {} THEN ReturnedNotFound ELSE Returned(list[f])

\* C8: a find with a leftmost child selector returns the first entry, in
\* canonical order, that satisfies the simple-selector predicate, and
\* not-found when none does.
LeftmostFindsFirstMatch ==
  (last.op = "find" /\ last.interest.childSelector <= 0) =>
    [out |-> last.out, found |-> last.found]
      = FirstMatch(skipList, last.interest)

\* C9: a find with a rightmost child selector returns what the full scan
\* of the descendant range returns: the last entry, in canonical order,
\* that satisfies the simple-selector predicate, and not-found when none
\* does.
RightmostFindsLastMatch ==
  (last.op = "find" /\ last.interest.childSelector > 0) =>
    [out |-> last.out, found |-> last.found]
      = LastMatch(skipList, last.interest)

\* C10: a find with a rightmost child selector terminates (the calls that
\* ran into undefined behaviour set aside: the window-shrinking loop itself
\* comes to an end).
RightmostFindTerminates ==
  (last.op = "find" /\ last.interest.childSelector > 0 /\ ~last.undefined) =>
    last.out # "hang"

\* the entry of the name in the container
EntryOf(list, name) == list[SkipFind(list, name)]

\* C11: an insert called while the index is not full, on a name whose
\* entry is live, returns false and changes nothing: the entry keeps its
\* id, hash and status, no entry is added and m_size is unchanged.
InsertOnLiveIsNoOp ==
  [][ ( /\ last'.op = "insert"
        /\ ~IsFull(m_size)
        /\ HasDataOf(skipList, last'.name) ) =>
        /\ last'.out = "return" /\ ~last'.ret
        /\ skipList' = skipList
        /\ EntryOf(skipList', last'.name) = EntryOf(skipList, last'.name)
        /\ m_size' = m_size
    ]_vars

\* C11 witness: an insert carrying another id was answered false and the
\* live entry of the name still has its own id.
InsertOnLiveWitness ==
  /\ last.op = "insert" /\ last.out = "return" /\ ~last.ret
  /\ HasDataOf(skipList, last.name)
  /\ EntryOf(skipList, last.name).id # last.id
  /\ m_size < MaxPackets

\* C12: erase(name) is an exact-match soft delete.  When no entry has
\* exactly that name (descendants of it may exist) it returns false and
\* leaves container and m_size as they were; when a live entry has exactly
\* that name it returns true, the entry stays in its place with status
\* DELETED and the same name, id and hash, m_size goes down by one and
\* every other entry is unchanged.
EraseIsExactSoftDelete ==
  [][ last'.op = "erase" =>
        /\ last'.name \notin EntryNames(skipList) =>
             /\ last'.out = "return" /\ ~last'.ret
             /\ skipList' = skipList
             /\ m_size' = m_size
        /\ HasDataOf(skipList, last'.name) =>
             /\ last'.out = "return" /\ last'.ret
             /\ Len(skipList') = Len(skipList)
             /\ \A i \in 1..Len(skipList) :
                  skipList'[i] = IF skipList[i].name = last'.name
                                   THEN SetStatus(skipList[i], DELETED)
                                   ELSE skipList[i]
             /\ m_size' = m_size - 1
    ]_vars

\* C12 witness: a live entry was erased next to a live entry of another
\* name, and the erased entry is in the container as a tombstone.
EraseSoftDeleteWitness ==
  /\ last.op = "erase" /\ last.out = "return" /\ last.ret
  /\ last.book = "erases"
  /\ EntryOf(skipList, last.name).status = DELETED
  /\ \E i \in 1..Len(skipList) :
       skipList[i].name # last.name /\ IsLive(skipList[i])
  /\ m_size = last.sizePre - 1

\* the live entries of the container, in their order
LiveEntries(list) == SelectSeq(list, IsLive)

\* C13: after prune no entry of the container has status DELETED, every
\* entry that was live before the call is still there with the same name,
\* id, hash and status, and m_size is unchanged.
PruneRemovesTombstones ==
  [][ last'.op = "prune" =>
        /\ \A i \in 1..Len(skipList') : skipList'[i].status # DELETED
        /\ skipList' = LiveEntries(skipList)
        /\ m_size' = m_size
    ]_vars

\* C13 witness: prune has taken two tombstones out and left a live entry.
PruneWitness ==
  /\ last.op = "prune"
  /\ Cardinality(last.removed) >= 2
  /\ Len(skipList) >= 1
  /\ \A i \in 1..Len(skipList) : IsLive(skipList[i])

\* C14: an entry that find(query) returns, under either child selector, is
\* an entry of the container that satisfies the simple-selector predicate
\* in the current state: it is not DELETED, the query name is a prefix of
\* its name, its suffix length is within the suffix bounds that are set and
\* its component right after the query name is not excluded.  The query /1
\* with minSuffixComponents = 2 over a container that holds /1/1 only
\* returns not-found.
ReturnedEntrySatisfies ==
  /\ (last.op = "find" /\ last.out = "return" /\ last.found # NotFound) =>
       \E i \in 1..Len(skipList) :
         /\ skipList[i].name = last.found.name
         /\ skipList[i].id = last.found.id
         /\ Satisfies(last.interest, skipList[i])
  /\ ( /\ last.op = "find"
       /\ last.interest.name = <<1>>
       /\ last.interest.minSuffixComponents = 2
       /\ EntryNames(skipList) = { <<1, 1>> } ) =>
       /\ last.out = "return"
       /\ last.found = NotFound

\* C14 witness: a rightmost find that excludes the component 2 has stepped
\* back over the live entry /1/2 and returned /1/1.
ReturnedEntryWitness ==
  /\ last.op = "find" /\ last.out = "return"
  /\ last.interest.childSelector > 0
  /\ last.interest.exclude = {2}
  /\ HasDataOf(skipList, <<1, 2>>)
  /\ last.found.name = <<1, 1>>

\* C15: a find whose query carries a publisher key locator rejects every
\* candidate whose hash differs from the digest of the key locator, one
\* without hash included, as a non-match: it returns an entry whose hash
\* equals the digest, and returns not-found, without fault, when no
\* candidate has that hash.
KeyLocatorFilter ==
  (last.op = "find" /\ last.interest.keyLocator # NoKeyLocator) =>
    /\ last.out = "return"
    /\ IF Matching(skipList, last.interest) = {}
         THEN last.found = NotFound
         ELSE \E i \in Matching(skipList, last.interest) :
                last.found = [id |-> skipList[i].id, name |-> skipList[i].name]

\* the calls of the visitor that reported status DELETED
VisitedDeleted(visited) ==
  { visited[i].name :
      i \in { j \in 1..Len(visited) : visited[j].status = DELETED } }

\* C16: a tombstone is retained until compaction.  Once erase(name) has
\* returned true an entry of that name is in the container with status
\* DELETED; it stays there, and entryEnumeration visits it with status
\* DELETED, across every call other than prune and an insert of that same
\* name; it leaves the container through prune only, and is otherwise
\* replaced only by the live entry of a resurrecting insert of the name.
TombstoneRetained ==
  [][ /\ (last'.op = "erase" /\ last'.out = "return" /\ last'.ret) =>
           last'.name \in Tombstones(skipList')
      /\ last'.op = "entryEnumeration" =>
           VisitedDeleted(last'.visited) = Tombstones(skipList)
      /\ \A n \in Tombstones(skipList) :
           /\ ( /\ last'.op # "prune"
                /\ ~(last'.op = "insert" /\ last'.name = n) ) =>
                /\ n \in Tombstones(skipList')
                /\ n \in VisitedDeleted(Visited(skipList'))
           /\ n \notin Tombstones(skipList') =>
                \/ last'.op = "prune" /\ n \notin EntryNames(skipList')
                \/ /\ last'.op = "insert" /\ last'.name = n /\ last'.ret
                   /\ EntryOf(skipList', n).status = INSERTED
    ]_vars

\* C16 witness: entryEnumeration has visited two tombstones and a live
\* entry: the first tombstone outlived the calls on the other names.
TombstoneRetainedWitness ==
  /\ last.op = "entryEnumeration"
  /\ Cardinality(VisitedDeleted(last.visited)) >= 2
  /\ \E i \in 1..Len(last.visited) : last.visited[i].status # DELETED

\* no two entries of the container have the same name
OneEntryPerName(list) ==
  \A i, j \in 1..Len(list) : list[i].name = list[j].name => i = j

\* C17: the container holds at most one entry per name in every state
\* between two calls, and in the state between the remove and the
\* re-insert that an erase or a resurrecting insert called next would go
\* through; and no erase ends in the error of its re-insert colliding.
OneEntryPerNameAlways ==
  /\ OneEntryPerName(skipList)
  /\ \A n \in Names :
       /\ OneEntryPerName(EraseIntermediate(skipList, n))
       /\ EraseEntry(skipList, m_size, n).out # "throw"
       /\ \A p \in HashPackets :
            OneEntryPerName(
              InsertIntermediate(skipList,
                                 EntryFromHash(n, p.keyLocatorHash, p.id)))
  /\ ~(last.op = "erase" /\ last.out = "throw")

\* C17 witness: an erase has put its DELETED copy back into a container
\* in which every name is taken, by tombstones and live entries.
OneEntryPerNameWitness ==
  /\ last.op = "erase" /\ last.out = "return" /\ last.ret
  /\ EntryNames(skipList) = Names
  /\ Len(skipList) = Cardinality(Names)
  /\ Tombstones(skipList) # {} /\ LiveCount(skipList) > 0

\* C18: after k inserts of k distinct names that returned true, followed
\* by erases of j <= k distinct names among them, each erased once and no
\* prune called, m_size is k - j (the container holds the k entries, j of
\* them as tombstones).
SizeAfterInsertsAndErases ==
  last.book # "off" =>
    /\ m_size = last.k - last.j
    /\ last.j <= last.k
    /\ Len(skipList) = last.k
    /\ Cardinality(Tombstones(skipList)) = last.j

\* C18 witness: two names were inserted and then both erased.
SizeAfterInsertsAndErasesWitness ==
  /\ last.book = "erases"
  /\ last.k = MaxPackets /\ last.j = MaxPackets
  /\ m_size = 0

\* C19: erase is idempotent on a name: an erase of a name whose entry is
\* already DELETED leaves m_size and the container as they were.
EraseIdempotent ==
  [][ (last'.op = "erase" /\ last'.name \in Tombstones(skipList)) =>
        /\ skipList' = skipList
        /\ m_size' = m_size
    ]_vars

\* C20: in a find with a rightmost child selector the scan window stays
\* inside the container and the descendant range: prev is never the
\* decrement of the first position of the container, and the name
\* truncated to the depth of the query plus one is that of a descendant of
\* the query name.
RightmostWindowInside ==
  (last.op = "find" /\ last.interest.childSelector > 0) =>
    RightmostStaysInside(skipList, last.interest)

====
